---- MODULE Spec2Model ----
(***************************************************************************)
(* Model of aace::alexa::AudioPlayer, the platform interface through which *)
(* the Engine pushes playback activity and pulls position / duration, and  *)
(* of the weak reference it keeps to its AudioPlayerEngineInterface.       *)
(***************************************************************************)
EXTENDS Integers, Sequences, FiniteSets, TLC

(* ---------------------------------------------------------------- bounds *)
MaxTime == 1
MaxOwners == 2
MaxPush == 3
MaxStream == 3

(* ------------------------------------------------------ program constants *)
\* enum class PlayerActivity, in declaration order
IDLE == 0
PLAYING == 1
STOPPED == 2
PAUSED == 3
BUFFER_UNDERRUN == 4
FINISHED == 5
PlayerActivity == {IDLE, PLAYING, STOPPED, PAUSED, BUFFER_UNDERRUN, FINISHED}

TIME_UNKNOWN_wrong == 0 - 2
TIME_UNKNOWN == -1

\* The engine objects (AudioPlayerEngineInterface instances) of the model and
\* the null pointer.
Channels == {"A", "B"}
NONE == "null"

\* Values an engine's onGetPlayerPosition / onGetPlayerDuration may return:
\* milliseconds or the sentinel.
TimeValue == {TIME_UNKNOWN} \cup (0 .. MaxTime)
\* What a call through a destroyed object may produce.
AnyInt64 == (0 - 3) .. MaxTime

Ops == {"position", "duration"}

VARIABLES
    m_audioPlayerEngineInterface, \* the weak_ptr member: [ptr, ctrl]
    bridgeAlive,      \* FALSE once ~AudioPlayer has run
    owners,           \* shared_ptr owners of each engine object, bridge excluded
    temps,            \* shared_ptr temporaries held by a bridge call in flight
    alive,            \* the engine object has not been destroyed
    received,         \* calls each engine object has received from the bridge
    crashed,          \* a destroyed object was dereferenced
    lastSet,          \* argument of the latest setEngineInterface, or "never"
    prevSet,          \* argument of the one before
    lastCall,         \* the latest completed getPlayerPosition / getPlayerDuration
    pushed,           \* activities the engine has pushed, in order
    hookLog,          \* activities the playerActivityChanged hook has seen
    stream,           \* tokens written to the std::ostream
    streamArgs,       \* the PlayerActivity values that were inserted
    pcSet, setArg,    \* thread running setEngineInterface
    pcGet, getOp, locked, \* thread running a time query
    pcPush, pushArg   \* thread running playerActivityChanged

vars == << m_audioPlayerEngineInterface, bridgeAlive, owners, temps, alive,
           received, crashed, lastSet, prevSet, lastCall, pushed, hookLog,
           stream, streamArgs, pcSet, setArg, pcGet, getOp, locked,
           pcPush, pushArg >>

bridgeVars == << m_audioPlayerEngineInterface, bridgeAlive, owners, temps,
                 alive, received, crashed, lastSet, prevSet, lastCall >>
hookVars == << pushed, hookLog >>
streamVars == << stream, streamArgs >>
threadVars == << pcSet, setArg, pcGet, getOp, locked, pcPush, pushArg >>

(* ------------------------------------------------- smart-pointer helpers *)
EmptyRef == [ptr |-> NONE, ctrl |-> NONE]
RefTo(c) == [ptr |-> c, ctrl |-> c]

\* What the member adds to the use_count of engine object c.
BridgeHolds_strong(c) == IF m_audioPlayerEngineInterface.ctrl = c THEN 1 ELSE 0
BridgeHolds(c) == 0

\* use_count of engine object c given owner and temporary counts
UseCount(own, tmp, c) == own[c] + tmp[c] + BridgeHolds(c)

\* weak_ptr::lock(): a shared_ptr to the stored pointer when the control
\* block still has owners, an empty shared_ptr otherwise.
Lock_raw(ref) == ref
Lock(ref) ==
    IF ref.ctrl # NONE /\ alive[ref.ctrl] THEN ref ELSE EmptyRef

NoCall == [op |-> "none", target |-> NONE, ret |-> TIME_UNKNOWN,
           attached |-> "never", prev |-> "never", live |-> {}]

Live == {c \in Channels : alive[c]}

(* ------------------------------------------------------------------ Init *)
\* AudioPlayer() = default: the weak_ptr member is empty.  Each engine
\* object exists and is owned by the Engine.
Init ==
    /\ m_audioPlayerEngineInterface = EmptyRef
    /\ bridgeAlive = TRUE
    /\ owners = [c \in Channels |-> 1]
    /\ temps = [c \in Channels |-> 0]
    /\ alive = [c \in Channels |-> TRUE]
    /\ received = [c \in Channels |-> {}]
    /\ crashed = FALSE
    /\ lastSet = "never"
    /\ prevSet = "never"
    /\ lastCall = NoCall
    /\ pushed = << >>
    /\ hookLog = << >>
    /\ stream = << >>
    /\ streamArgs = << >>
    /\ pcSet = "idle"
    /\ setArg = NONE
    /\ pcGet = "idle"
    /\ getOp = "none"
    /\ locked = EmptyRef
    /\ pcPush = "idle"
    /\ pushArg = IDLE

(* ------------------------------------------- owners of the engine objects *)
\* Another shared_ptr to engine object c is copied from an existing one.
AcquireOwner(c) ==
    /\ owners[c] > 0
    /\ owners[c] < MaxOwners
    /\ owners' = [owners EXCEPT ![c] = @ + 1]
    /\ UNCHANGED << m_audioPlayerEngineInterface, bridgeAlive, temps, alive,
                    received, crashed, lastSet, prevSet, lastCall >>
    /\ UNCHANGED << hookVars, streamVars, threadVars >>

\* A shared_ptr to engine object c is released; the object is destroyed when
\* its use_count drops to zero.
ReleaseOwner(c) ==
    /\ owners[c] > 0
    /\ owners' = [owners EXCEPT ![c] = @ - 1]
    /\ alive' = [alive EXCEPT ![c] = alive[c] /\ UseCount(owners', temps, c) > 0]
    /\ UNCHANGED << m_audioPlayerEngineInterface, bridgeAlive, temps,
                    received, crashed, lastSet, prevSet, lastCall >>
    /\ UNCHANGED << hookVars, streamVars, threadVars >>

(* ------------------------------------------------- the bridge, one caller *)
\* setEngineInterface(audioPlayerEngineInterface): the member is assigned
\* from the shared_ptr argument (which may be null).
setEngineInterface_keepFirst(c) ==
    /\ bridgeAlive
    /\ c # NONE => owners[c] > 0
    /\ m_audioPlayerEngineInterface' =
          IF m_audioPlayerEngineInterface = EmptyRef
          THEN RefTo(c) ELSE m_audioPlayerEngineInterface
    /\ prevSet' = lastSet
    /\ lastSet' = c
    /\ UNCHANGED << bridgeAlive, owners, temps, alive, received, crashed,
                    lastCall >>
    /\ UNCHANGED << hookVars, streamVars, threadVars >>

setEngineInterface(c) ==
    /\ bridgeAlive
    /\ c # NONE => owners[c] > 0
    /\ m_audioPlayerEngineInterface' = RefTo(c)
    /\ prevSet' = lastSet
    /\ lastSet' = c
    /\ UNCHANGED << bridgeAlive, owners, temps, alive, received, crashed,
                    lastCall >>
    /\ UNCHANGED << hookVars, streamVars, threadVars >>

\* A time query: resolve the weak reference; forward to the engine object
\* when it resolves, answer TIME_UNKNOWN when it does not.  v is the value
\* the engine object answers with, u what a destroyed object would yield.
TimeQuery(op, v, u) ==
    /\ bridgeAlive
    /\ LET sp == Lock(m_audioPlayerEngineInterface) IN
       IF sp.ptr = NONE
       THEN /\ lastCall' = [op |-> op, target |-> NONE, ret |-> TIME_UNKNOWN,
                            attached |-> lastSet, prev |-> prevSet,
                            live |-> Live]
            /\ UNCHANGED << received, crashed >>
       ELSE IF alive[sp.ptr]
       THEN /\ lastCall' = [op |-> op, target |-> sp.ptr, ret |-> v,
                            attached |-> lastSet, prev |-> prevSet,
                            live |-> Live]
            /\ received' = [received EXCEPT ![sp.ptr] = @ \cup {op}]
            /\ UNCHANGED crashed
       ELSE /\ lastCall' = [op |-> op, target |-> sp.ptr, ret |-> u,
                            attached |-> lastSet, prev |-> prevSet,
                            live |-> Live]
            /\ crashed' = TRUE
            /\ UNCHANGED received
    /\ UNCHANGED << m_audioPlayerEngineInterface, bridgeAlive, owners, temps,
                    alive, lastSet, prevSet >>
    /\ UNCHANGED << hookVars, streamVars, threadVars >>

getPlayerPosition == \E v \in TimeValue, u \in AnyInt64 : TimeQuery("position", v, u)

getPlayerDuration == \E v \in TimeValue, u \in AnyInt64 : TimeQuery("duration", v, u)

\* ~AudioPlayer(): the member is destroyed with the object, giving up
\* whatever it held on the engine object.
DestroyBridge ==
    /\ bridgeAlive
    /\ bridgeAlive' = FALSE
    /\ alive' = [c \in Channels |->
                    alive[c] /\ (BridgeHolds(c) = 0 \/ owners[c] + temps[c] > 0)]
    /\ UNCHANGED << m_audioPlayerEngineInterface, owners, temps, received,
                    crashed, lastSet, prevSet, lastCall >>
    /\ UNCHANGED << hookVars, streamVars, threadVars >>

Next ==
    /\ ~crashed
    /\ \/ \E c \in Channels : AcquireOwner(c)
       \/ \E c \in Channels : ReleaseOwner(c)
       \/ \E c \in Channels \cup {NONE} : setEngineInterface(c)
       \/ getPlayerPosition
       \/ getPlayerDuration
       \/ DestroyBridge

Spec == Init /\ [][Next]_vars


(* ------------------------------------------------- claims checked on Spec *)
\* C1: after setEngineInterface(A) then setEngineInterface(B), a later time
\* query resolves to B when B exists, is skipped otherwise, and never
\* reaches A, whether or not A still exists.
C1_ReattachResolvesToLatest ==
    (lastCall.op # "none" /\ lastCall.prev \in Channels
                          /\ lastCall.attached \in Channels) =>
        /\ lastCall.target \in {lastCall.attached, NONE}
        /\ lastCall.attached \in lastCall.live =>
               lastCall.target = lastCall.attached
        /\ lastCall.prev # lastCall.attached =>
               lastCall.target # lastCall.prev

C1_Witness ==
    /\ lastCall.op = "duration"
    /\ lastCall.prev = "A"
    /\ lastCall.attached = "B"
    /\ lastCall.target = "B"
    /\ "A" \in lastCall.live

\* The bridge accepts another query and another attachment.
BridgeUsable ==
    /\ ENABLED (~crashed /\ getPlayerPosition)
    /\ ENABLED (~crashed /\ setEngineInterface(NONE))

\* C2: once the attached engine object is destroyed, a time query invokes
\* no engine object, returns normally with the sentinel, and the bridge
\* remains usable.
C2_ExpiredIsSilentNoOp ==
    /\ (lastCall.op # "none" /\ lastCall.attached \in Channels
                             /\ lastCall.attached \notin lastCall.live) =>
           /\ lastCall.target = NONE
           /\ lastCall.ret = -1
           /\ ~crashed
           /\ bridgeAlive => BridgeUsable
    /\ \A c \in Channels : (~alive[c] /\ lastCall.target = c) =>
           c \in lastCall.live

C2_Witness ==
    /\ lastCall.op = "position"
    /\ lastCall.attached = "A"
    /\ "A" \notin lastCall.live
    /\ received["A"] # {}
    /\ lastCall.target = NONE
    /\ bridgeAlive

\* C4: getPlayerPosition on a bridge to which no channel was ever attached
\* returns -1.
C4_UnattachedPositionUnknown ==
    (lastCall.op = "position" /\ lastCall.attached = "never") =>
        lastCall.ret = -1

C4_Witness ==
    /\ lastCall.op = "position"
    /\ lastCall.attached = "never"
    /\ lastCall.ret = -1
    /\ lastCall.target = NONE

C9_BridgeNeverKeepsEngineAlive ==
    \A c \in Channels : owners[c] = 0 => ~alive[c]

C9_Witness ==
    /\ bridgeAlive
    /\ m_audioPlayerEngineInterface = RefTo("A")
    /\ received["A"] = Ops
    /\ owners["A"] = 0
    /\ ~alive["A"]

\* C10: the step that destroys the bridge changes nothing of any engine
\* object: not its existence, its owners, nor the calls it has received.
C10_DestructionIsSilent ==
    [][(bridgeAlive /\ ~bridgeAlive') =>
           (alive' = alive /\ owners' = owners /\ received' = received)]_vars

C10_Witness ==
    /\ ~bridgeAlive
    /\ m_audioPlayerEngineInterface = RefTo("B")
    /\ alive["B"]
    /\ ~alive["A"]

(* ------------------------------------------------ the hook, one caller *)
\* playerActivityChanged(state): the engine pushes state and the virtual
\* hook runs with it; the default body is empty.
playerActivityChanged_validated(state) ==
    /\ bridgeAlive
    /\ Len(pushed) < MaxPush
    /\ pushed' = Append(pushed, state)
    /\ hookLog' = IF hookLog # << >> /\ hookLog[Len(hookLog)] = state
                  THEN hookLog ELSE Append(hookLog, state)
    /\ UNCHANGED << bridgeVars, streamVars, threadVars >>

playerActivityChanged(state) ==
    /\ bridgeAlive
    /\ Len(pushed) < MaxPush
    /\ pushed' = Append(pushed, state)
    /\ hookLog' = Append(hookLog, state)
    /\ UNCHANGED << bridgeVars, streamVars, threadVars >>

NextPush == \E state \in PlayerActivity : playerActivityChanged(state)

SpecPush == Init /\ [][NextPush]_vars

\* C6: the hook has been invoked once per push, with the pushed values in
\* the pushed order.
C6_HookMirrorsPushes ==
    hookLog = pushed

C6_Witness ==
    /\ pushed = << PLAYING, PAUSED, FINISHED >>
    /\ hookLog = << PLAYING, PAUSED, FINISHED >>

(* ------------------------------------------------------ operator<< *)
\* operator<<(std::ostream&, const PlayerActivity&): one token per case of
\* the switch, nothing when no case matches.
OutputPlayerActivity_pasted(s, state) ==
    CASE state = IDLE -> Append(s, "IDLE")
      [] state = PLAYING -> Append(s, "PLAYING")
      [] state = STOPPED -> Append(s, "STOPPED")
      [] state = PAUSED -> Append(s, "STOPPED")
      [] state = BUFFER_UNDERRUN -> Append(s, "BUFFER_UNDERRUN")
      [] state = FINISHED -> Append(s, "FINISHED")
      [] OTHER -> s

OutputPlayerActivity(s, state) ==
    CASE state = IDLE -> Append(s, "IDLE")
      [] state = PLAYING -> Append(s, "PLAYING")
      [] state = STOPPED -> Append(s, "STOPPED")
      [] state = PAUSED -> Append(s, "PAUSED")
      [] state = BUFFER_UNDERRUN -> Append(s, "BUFFER_UNDERRUN")
      [] state = FINISHED -> Append(s, "FINISHED")
      [] OTHER -> s

InsertActivity(state) ==
    /\ Len(streamArgs) < MaxStream
    /\ stream' = OutputPlayerActivity(stream, state)
    /\ streamArgs' = Append(streamArgs, state)
    /\ UNCHANGED << bridgeVars, hookVars, threadVars >>

NextRender == \E state \in PlayerActivity : InsertActivity(state)

SpecRender == Init /\ [][NextRender]_vars

\* C8: every inserted value wrote exactly one non-empty token, and two
\* different values never wrote the same token.
C8_RenderingTotalInjective ==
    /\ Len(stream) = Len(streamArgs)
    /\ \A i \in 1 .. Len(stream) : stream[i] # ""
    /\ \A i, j \in 1 .. Len(stream) :
           streamArgs[i] # streamArgs[j] => stream[i] # stream[j]

C8_Witness ==
    /\ streamArgs = << STOPPED, PAUSED, BUFFER_UNDERRUN >>
    /\ stream = << "STOPPED", "PAUSED", "BUFFER_UNDERRUN" >>


(* ------------------------------------------- the bridge, several threads *)
\* The assignment of the member stores two words, the pointer and the
\* control block; nothing in the class orders them against a reader, so
\* either may be stored first.  The by-value shared_ptr argument owns the
\* engine object for the duration of the call.
SetBegin(c, first) ==
    /\ bridgeAlive
    /\ pcSet = "idle"
    /\ c # NONE => owners[c] > 0
    /\ pcSet' = "half"
    /\ setArg' = c
    /\ m_audioPlayerEngineInterface' =
           [m_audioPlayerEngineInterface EXCEPT ![first] = c]
    /\ temps' = IF c = NONE THEN temps ELSE [temps EXCEPT ![c] = @ + 1]
    /\ UNCHANGED << bridgeAlive, owners, alive, received, crashed, lastSet,
                    prevSet, lastCall >>
    /\ UNCHANGED << hookVars, streamVars, pcGet, getOp, locked, pcPush,
                    pushArg >>

SetFinish ==
    /\ pcSet = "half"
    /\ pcSet' = "idle"
    /\ setArg' = NONE
    /\ m_audioPlayerEngineInterface' = RefTo(setArg)
    /\ temps' = IF setArg = NONE THEN temps
                ELSE [temps EXCEPT ![setArg] = @ - 1]
    /\ alive' = [c \in Channels |-> alive[c] /\ UseCount(owners, temps', c) > 0]
    /\ prevSet' = lastSet
    /\ lastSet' = setArg
    /\ UNCHANGED << bridgeAlive, owners, received, crashed, lastCall >>
    /\ UNCHANGED << hookVars, streamVars, pcGet, getOp, locked, pcPush,
                    pushArg >>

\* First half of a time query: the weak reference is resolved into a
\* shared_ptr temporary, which owns the control block's object.
GetResolve(op) ==
    /\ bridgeAlive
    /\ pcGet = "idle"
    /\ pcGet' = "resolved"
    /\ getOp' = op
    /\ locked' = Lock(m_audioPlayerEngineInterface)
    /\ temps' = IF locked'.ctrl = NONE THEN temps
                ELSE [temps EXCEPT ![locked'.ctrl] = @ + 1]
    /\ UNCHANGED << m_audioPlayerEngineInterface, bridgeAlive, owners, alive,
                    received, crashed, lastSet, prevSet, lastCall >>
    /\ UNCHANGED << hookVars, streamVars, pcSet, setArg, pcPush, pushArg >>

\* Second half: the engine object is invoked through the resolved pointer
\* (or the call is skipped), the temporary is released and the query
\* returns.
GetReturn ==
    /\ pcGet = "resolved"
    /\ pcGet' = "idle"
    /\ getOp' = "none"
    /\ locked' = EmptyRef
    /\ IF locked.ptr = NONE
       THEN UNCHANGED << received, crashed >>
       ELSE IF alive[locked.ptr]
       THEN /\ received' = [received EXCEPT ![locked.ptr] = @ \cup {getOp}]
            /\ UNCHANGED crashed
       ELSE /\ crashed' = TRUE
            /\ UNCHANGED received
    /\ temps' = IF locked.ctrl = NONE THEN temps
                ELSE [temps EXCEPT ![locked.ctrl] = @ - 1]
    /\ alive' = [c \in Channels |-> alive[c] /\ UseCount(owners, temps', c) > 0]
    /\ UNCHANGED << m_audioPlayerEngineInterface, bridgeAlive, owners,
                    lastSet, prevSet, lastCall >>
    /\ UNCHANGED << hookVars, streamVars, pcSet, setArg, pcPush, pushArg >>

NextConc ==
    /\ ~crashed
    /\ \/ \E c \in Channels : AcquireOwner(c)
       \/ \E c \in Channels : ReleaseOwner(c)
       \/ \E c \in Channels \cup {NONE}, first \in {"ptr", "ctrl"} :
              SetBegin(c, first)
       \/ SetFinish
       \/ \E op \in Ops : GetResolve(op)
       \/ GetReturn

ConcSpec == Init /\ [][NextConc]_vars

PushCall(state) ==
    /\ bridgeAlive
    /\ pcPush = "idle"
    /\ pcPush' = "inHook"
    /\ pushArg' = state
    /\ UNCHANGED << bridgeVars, hookVars, streamVars, pcSet, setArg, pcGet,
                    getOp, locked >>

\* ... and its body, which is empty, completed.
PushReturn_waits ==
    /\ pcPush = "inHook"
    /\ pcGet = "idle"
    /\ pcPush' = "idle"
    /\ pushArg' = IDLE
    /\ UNCHANGED << bridgeVars, hookVars, streamVars, pcSet, setArg, pcGet,
                    getOp, locked >>

PushReturn ==
    /\ pcPush = "inHook"
    /\ pcPush' = "idle"
    /\ pushArg' = IDLE
    /\ UNCHANGED << bridgeVars, hookVars, streamVars, pcSet, setArg, pcGet,
                    getOp, locked >>

NextFair ==
    /\ ~crashed
    /\ \/ \E c \in Channels : AcquireOwner(c)
       \/ \E c \in Channels : ReleaseOwner(c)
       \/ \E c \in Channels \cup {NONE} : setEngineInterface(c) /\ pcGet = "idle"
       \/ \E op \in Ops : GetResolve(op)
       \/ GetReturn
       \/ \E state \in PlayerActivity : PushCall(state)
       \/ PushReturn

\* A thread that is inside a call keeps being scheduled.
FairSpec ==
    Init /\ [][NextFair]_vars /\ WF_vars(GetReturn) /\ WF_vars(PushReturn)

\* C7: a playerActivityChanged call and a time query that are in flight,
\* alone or together, each return.
C7_PushAndPullBothReturn ==
    /\ (pcPush = "inHook") ~> (pcPush = "idle")
    /\ (pcGet = "resolved") ~> (pcGet = "idle")

C7_Witness ==
    /\ pcPush = "inHook"
    /\ pushArg = STOPPED
    /\ pcGet = "resolved"
    /\ getOp = "position"
    /\ locked = RefTo("A")

====
